---- MODULE Spec2Model ----
(***************************************************************************)
(* Model of decoder/signal.h: the option classes (FrameOpts,               *)
(* SpectrogramOpts, FbankOpts, MfccOpts) with their Check(), the           *)
(* constructors of FrameSplitter, SpectrogramComputer, FbankComputer and   *)
(* MfccComputer, and the online framing state of FrameSplitter             *)
(* (prev_discard_size_ and the samples cached in online_use_).             *)
(*                                                                         *)
(* Float32 preemph_coeff is held in hundredths (0.97 is 97, 1.0 is 100).   *)
(* A sample is named by its place in the signal.  The bodies of            *)
(* FrameForIndex, ComputeFrame, ComputeFeature, ComputeMelFilters and      *)
(* RoundUpToNearestPowerOfTwo are not part of signal.h; they are modelled  *)
(* from the design document.                                               *)
(***************************************************************************)
EXTENDS Integers, Sequences, FiniteSets, TLC

VARIABLES kind, pc, failure, opts, comp, prev_discard, signal, pos, calls,
          out, counts, lastOp, lastArg, lastSize, lastStride,
          lastRet, warned, lastCalls, refLive, refTail, refOut, refCounts

vars == <<kind, pc, failure, opts, comp, prev_discard, signal, pos, calls,
          out, counts, lastOp, lastArg, lastSize, lastStride,
          lastRet, warned, lastCalls, refLive, refTail, refOut, refCounts>>

(***************************************************************************)
(* Bounds of the model.                                                    *)
(***************************************************************************)
MaxSamples == 5
MaxFrameLength == 3
MaxCalls == 2

(***************************************************************************)
(* Default arguments of the option constructors.                           *)
(***************************************************************************)
DefaultFrameLength == 400
DefaultFrameShift == 160
DefaultSampleRate == 16000
DefaultPreemphCoeff == 97
PreemphOne == 100
DefaultNumMelBins == 23
DefaultLowerBound == 20
DefaultUpperBound == 0
DefaultNumCeps == 13
MinMelBins == 3
MinNumCeps == 1

\* A signal of n samples; each sample is tagged with its place in the signal,
\* so that a sample copied to the wrong place of a frame is told apart.
Recording(n) == [i \in 1..n |-> i]

\* What a read behind the end of a buffer may find.
OtherValues == {0, -1}

(***************************************************************************)
(* Option classes: constructors.                                           *)
(***************************************************************************)
FrameOpts(length, shift, frequency, coeff) ==
    [frame_length |-> length, frame_shift |-> shift,
     sample_rate |-> frequency, preemph_coeff |-> coeff]

FrameOptsDefault ==
    FrameOpts(DefaultFrameLength, DefaultFrameShift, DefaultSampleRate,
              DefaultPreemphCoeff)

SpectrogramOptsFromFrame(fo) ==
    [apply_log |-> TRUE, apply_pow |-> TRUE, use_log_raw_energy |-> TRUE,
     frame_opts |-> fo]

SpectrogramOpts(power, log, use_energy) ==
    [apply_log |-> log, apply_pow |-> power, use_log_raw_energy |-> use_energy,
     frame_opts |-> FrameOptsDefault]

FbankOptsFromSpectrogram(so) ==
    [num_mel_bins |-> DefaultNumMelBins, lower_bound |-> DefaultLowerBound,
     upper_bound |-> DefaultUpperBound, apply_log |-> TRUE,
     spectrogram_opts |-> so]

\* The 'power' argument is accepted and not used: spectrogram_opts is
\* default-constructed (power = true) and only its two log flags are cleared.
FbankOpts(num_bins, low, high, power, log) ==
    [num_mel_bins |-> num_bins, lower_bound |-> low, upper_bound |-> high,
     apply_log |-> log,
     spectrogram_opts |->
        [SpectrogramOpts(TRUE, TRUE, TRUE)
            EXCEPT !.apply_log = FALSE, !.use_log_raw_energy = FALSE]]

MfccOpts(num_ceps) ==
    [num_ceps |-> num_ceps,
     fbank_opts |->
        [FbankOpts(DefaultNumMelBins, DefaultLowerBound, DefaultUpperBound,
                   TRUE, TRUE)
            EXCEPT !.spectrogram_opts.apply_pow = TRUE, !.apply_log = TRUE]]

MfccOptsFromFbank(fb) ==
    [num_ceps |-> DefaultNumCeps, fbank_opts |-> fb]

(***************************************************************************)
(* Option classes: Check().  TRUE when no ASSERT of the Check fires.       *)
(***************************************************************************)
FrameOptsCheck(fo) ==
    /\ fo.sample_rate # 0 /\ fo.frame_length >= fo.frame_shift
    /\ fo.preemph_coeff >= 0 /\ fo.preemph_coeff < PreemphOne

SpectrogramOptsCheck(so) == FrameOptsCheck(so.frame_opts)

FbankOptsCheck(fb) ==
    /\ SpectrogramOptsCheck(fb.spectrogram_opts)
    /\ fb.num_mel_bins >= MinMelBins
    /\ fb.lower_bound >= 0

MfccOptsCheck(mo) ==
    /\ FbankOptsCheck(mo.fbank_opts)
    /\ mo.num_ceps >= MinNumCeps

(***************************************************************************)
(* Integer arithmetic of the C++ code.                                     *)
(***************************************************************************)
Abs(x) == IF x < 0 THEN -x ELSE x

\* a / b on Int32 operands: the quotient is truncated toward zero (b # 0).
TruncDiv(a, b) ==
    LET q == Abs(a) \div Abs(b)
    IN  IF (a < 0) # (b < 0) THEN -q ELSE q

\* x >> 1 on an Int32: arithmetic shift, rounding toward minus infinity.
ShiftRightOne(x) == (x - (x % 2)) \div 2

RECURSIVE PowerOfTwoFrom(_, _)
PowerOfTwoFrom(n, p) == IF p >= n THEN p ELSE PowerOfTwoFrom(n, 2 * p)

RoundUpToNearestPowerOfTwo(n) == PowerOfTwoFrom(n, 1)

(***************************************************************************)
(* FrameSplitter.                                                          *)
(***************************************************************************)
\* A Reset() that leaves prev_discard_size_ as it is.
FrameSplitterResetKeeps(cached) == cached

\* Reset() { prev_discard_size_ = 0; }: the cached samples are dropped.
FrameSplitterReset(cached) == << >>

\* The constructor: Reset(), then frame_opts_.Check().
FrameSplitterNew(fo) ==
    [ok |-> FrameOptsCheck(fo),
     why |-> IF FrameOptsCheck(fo) THEN "none" ELSE "Check",
     obj |-> [frame_opts_ |-> fo],
     cached |-> FrameSplitterReset(<< >>)]

FrameLength(sp) == sp.frame_opts_.frame_length
FrameShift(sp) == sp.frame_opts_.frame_shift
PaddingLength(sp) == RoundUpToNearestPowerOfTwo(sp.frame_opts_.frame_length)

\* NumFrames(num_samps) for frame_shift # 0; size is prev_discard_size_.
NumFrames(sp, size, num_samps) ==
    TruncDiv(num_samps + size - FrameLength(sp), FrameShift(sp)) + 1

\* LOG_WARN is issued exactly when the computed count is 0.
NumFramesWarns(sp, size, num_samps) == NumFrames(sp, size, num_samps) = 0

\* FrameForIndex: the frame_length samples of frame 'index' of the stream
\* made of the cached samples followed by the new ones.  memory is what a
\* read reaches: cached samples, the signal, and whatever lies behind it.
FrameForIndex(sp, memory, index) ==
    [i \in 1..FrameLength(sp) |-> memory[index * FrameShift(sp) + i]]

\* The samples kept for the next call once num_frames frames were taken.
CarriedTail(sp, stream, num_frames) ==
    SubSeq(stream, num_frames * FrameShift(sp) + 1, Len(stream))

\* Frame(signal, num_samps, frames, stride), after its ASSERT: the calls of
\* FrameForIndex in order (frame index and offset in 'frames'), the frames
\* written, the returned count and the samples cached afterwards.
FrameLoop(sp, cached, chunk, behind, stride) ==
    LET num_frames == NumFrames(sp, Len(cached), Len(chunk))
        written    == IF num_frames > 0 THEN num_frames ELSE 0
        memory     == cached \o chunk \o behind
    IN  [ret    |-> num_frames,
         calls  |-> [t \in 1..written |-> <<t - 1, stride * (t - 1)>>],
         frames |-> [t \in 1..written |-> FrameForIndex(sp, memory, t - 1)],
         cached |-> IF written = 0 THEN cached
                    ELSE CarriedTail(sp, cached \o chunk, num_frames)]

(***************************************************************************)
(* The computers.                                                          *)
(***************************************************************************)
SpectrogramComputerNew(so) ==
    LET s == FrameSplitterNew(so.frame_opts)
    IN  [ok |-> s.ok, why |-> s.why,
         obj |-> [apply_pow_ |-> so.apply_pow, apply_log_ |-> so.apply_log,
                  use_log_raw_energy_ |-> so.use_log_raw_energy,
                  padding_length_ |-> PaddingLength(s.obj),
                  splitter |-> s.obj],
         cached |-> s.cached]

\* A FeatureDim() that forgets the bin at the Nyquist frequency.
SpectrogramFeatureDimHalf(sc) == sc.padding_length_ \div 2

SpectrogramFeatureDim(sc) == sc.padding_length_ \div 2 + 1

SpectrogramComputerReset(cached) == FrameSplitterReset(cached)

\* ComputeMelFilters fails when the frequency range is degenerate.
ComputeMelFiltersOk(lower_bound, upper_bound) == lower_bound < upper_bound

\* A resolution that counts from the sample rate, not from half of it.
ResolveUpperBoundFromRate(fb) ==
    IF fb.upper_bound > 0 THEN fb.upper_bound
    ELSE fb.spectrogram_opts.frame_opts.sample_rate + fb.upper_bound

\* upper_bound_ as the constructor resolves it.
ResolveUpperBound(fb) ==
    LET center_freq == ShiftRightOne(fb.spectrogram_opts.frame_opts.sample_rate)
    IN  IF fb.upper_bound > 0 THEN fb.upper_bound
        ELSE center_freq + fb.upper_bound

\* ASSERT(!spectrogram_opts.apply_log && !spectrogram_opts.use_log_raw_energy)
FbankComputerAssert(fb) ==
    ~fb.spectrogram_opts.apply_log /\ ~fb.spectrogram_opts.use_log_raw_energy

FbankComputerNew(fb) ==
    LET sc  == SpectrogramComputerNew(fb.spectrogram_opts)
        why == IF ~sc.ok THEN sc.why
               ELSE IF ~FbankOptsCheck(fb) THEN "Check"
               ELSE IF ~FbankComputerAssert(fb) THEN "ASSERT"
               ELSE IF ~ComputeMelFiltersOk(fb.lower_bound, ResolveUpperBound(fb))
                    THEN "ComputeMelFilters"
               ELSE "none"
    IN  [ok |-> why = "none", why |-> why,
         obj |-> [num_bins_ |-> fb.num_mel_bins,
                  lower_bound_ |-> fb.lower_bound,
                  upper_bound_ |-> ResolveUpperBound(fb),
                  apply_log_ |-> fb.apply_log,
                  spectrogram_computer_ |-> sc.obj],
         cached |-> sc.cached]

FbankFeatureDim(fc) == fc.num_bins_

FbankComputerReset(cached) == SpectrogramComputerReset(cached)

\* ASSERT(mfcc_opts.fbank_opts.spectrogram_opts.apply_pow &&
\*        mfcc_opts.fbank_opts.apply_log)
MfccComputerAssert(mo) ==
    mo.fbank_opts.spectrogram_opts.apply_pow /\ mo.fbank_opts.apply_log

MfccComputerNew(mo) ==
    LET fc  == FbankComputerNew(mo.fbank_opts)
        why == IF ~fc.ok THEN fc.why
               ELSE IF ~MfccOptsCheck(mo) THEN "Check"
               ELSE IF ~MfccComputerAssert(mo) THEN "ASSERT"
               ELSE "none"
    IN  [ok |-> why = "none", why |-> why,
         obj |-> [num_ceps_ |-> mo.num_ceps, fbank_computer |-> fc.obj],
         cached |-> fc.cached]

MfccFeatureDim(mc) == mc.num_ceps_

MfccComputerReset(cached) == FbankComputerReset(cached)

(***************************************************************************)
(* Dispatch on the class of the object under study.                        *)
(***************************************************************************)
Kinds == {"FrameSplitter", "SpectrogramComputer", "FbankComputer",
          "MfccComputer"}

Computers == Kinds \ {"FrameSplitter"}

New(k, o) ==
    CASE k = "FrameSplitter"       -> FrameSplitterNew(o)
      [] k = "SpectrogramComputer" -> SpectrogramComputerNew(o)
      [] k = "FbankComputer"       -> FbankComputerNew(o)
      [] k = "MfccComputer"        -> MfccComputerNew(o)

OptsCheck(k, o) ==
    CASE k = "FrameSplitter"       -> FrameOptsCheck(o)
      [] k = "SpectrogramComputer" -> SpectrogramOptsCheck(o)
      [] k = "FbankComputer"       -> FbankOptsCheck(o)
      [] k = "MfccComputer"        -> MfccOptsCheck(o)

FrameOptsOf(k, o) ==
    CASE k = "FrameSplitter"       -> o
      [] k = "SpectrogramComputer" -> o.frame_opts
      [] k = "FbankComputer"       -> o.spectrogram_opts.frame_opts
      [] k = "MfccComputer"        -> o.fbank_opts.spectrogram_opts.frame_opts

SplitterOf(k, c) ==
    CASE k = "FrameSplitter"       -> c
      [] k = "SpectrogramComputer" -> c.splitter
      [] k = "FbankComputer"       -> c.spectrogram_computer_.splitter
      [] k = "MfccComputer"        ->
            c.fbank_computer.spectrogram_computer_.splitter

SpectrogramOf(k, c) ==
    CASE k = "SpectrogramComputer" -> c
      [] k = "FbankComputer"       -> c.spectrogram_computer_
      [] k = "MfccComputer"        -> c.fbank_computer.spectrogram_computer_

FbankOf(k, c) ==
    CASE k = "FbankComputer" -> c
      [] k = "MfccComputer"  -> c.fbank_computer

FeatureDim(k, c) ==
    CASE k = "SpectrogramComputer" -> SpectrogramFeatureDim(c)
      [] k = "FbankComputer"       -> FbankFeatureDim(c)
      [] k = "MfccComputer"        -> MfccFeatureDim(c)

ResetOf(k, cached) ==
    CASE k = "FrameSplitter"       -> FrameSplitterReset(cached)
      [] k = "SpectrogramComputer" -> SpectrogramComputerReset(cached)
      [] k = "FbankComputer"       -> FbankComputerReset(cached)
      [] k = "MfccComputer"        -> MfccComputerReset(cached)

(***************************************************************************)
(* Inputs.                                                                 *)
(***************************************************************************)
FrameLengths == {2, DefaultFrameLength}
FrameShifts == {-1, 0, 1, DefaultFrameShift}
SampleRates == {-1, 0, 11025, DefaultSampleRate}
PreemphCoeffs == {-1, DefaultPreemphCoeff, PreemphOne}
NumMelBins == {2, DefaultNumMelBins}
LowerBounds == {-1, DefaultLowerBound}
UpperBounds == {-100, DefaultUpperBound, 4000}
NumCeps == {0, DefaultNumCeps}
NumSampsQueries == {0, 1, 2, 300, 1000}

\* Every value the public fields of the option objects can be given.
AnyFrameOpts ==
    {FrameOpts(l, s, r, c) : l \in FrameLengths, s \in FrameShifts,
                             r \in SampleRates, c \in PreemphCoeffs}

AnySpectrogramOpts ==
    [apply_log : BOOLEAN, apply_pow : BOOLEAN, use_log_raw_energy : BOOLEAN,
     frame_opts : AnyFrameOpts]

AnyFbankOpts ==
    [num_mel_bins : NumMelBins, lower_bound : LowerBounds,
     upper_bound : UpperBounds, apply_log : BOOLEAN,
     spectrogram_opts : AnySpectrogramOpts]

AnyMfccOpts == [num_ceps : NumCeps, fbank_opts : AnyFbankOpts]

AnyOpts(k) ==
    CASE k = "FrameSplitter"       -> AnyFrameOpts
      [] k = "SpectrogramComputer" -> AnySpectrogramOpts
      [] k = "FbankComputer"       -> AnyFbankOpts
      [] k = "MfccComputer"        -> AnyMfccOpts

\* Small frames, so that a signal of a few samples spans several of them.
SmallFrameOpts ==
    {FrameOpts(l, s, DefaultSampleRate, DefaultPreemphCoeff) :
        l \in 1..MaxFrameLength, s \in 1..MaxFrameLength}

\* The option objects of the four classes as their default constructors make
\* them, with frame_opts assigned afterwards.
WithFrameOpts(k, fo) ==
    CASE k = "FrameSplitter"       -> fo
      [] k = "SpectrogramComputer" -> SpectrogramOptsFromFrame(fo)
      [] k = "FbankComputer"       ->
            [FbankOpts(DefaultNumMelBins, DefaultLowerBound, DefaultUpperBound,
                       TRUE, TRUE)
                EXCEPT !.spectrogram_opts.frame_opts = fo]
      [] k = "MfccComputer"        ->
            [MfccOpts(DefaultNumCeps)
                EXCEPT !.fbank_opts.spectrogram_opts.frame_opts = fo]

\* The boolean options a configuration file may set, and those it sets true.
ParsedFlags == {"SpectrogramOpts.apply_log", "SpectrogramOpts.apply_pow",
                "SpectrogramOpts.use_log_raw_energy", "FbankOpts.apply_log"}

ParsedFiles == {f \in [given : SUBSET ParsedFlags, on : SUBSET ParsedFlags] :
                   f.on \subseteq f.given}

(***************************************************************************)
(* ParseConfigure.  AddOptions stores the parsed value of an option the    *)
(* file gives and leaves the field alone otherwise.                        *)
(***************************************************************************)
AddOptions(file, name, field) ==
    IF name \in file.given THEN name \in file.on ELSE field

SpectrogramOptsParseConfigure(so, file) ==
    [so EXCEPT
        !.apply_log = AddOptions(file, "SpectrogramOpts.apply_log", @),
        !.apply_pow = AddOptions(file, "SpectrogramOpts.apply_pow", @),
        !.use_log_raw_energy =
            AddOptions(file, "SpectrogramOpts.use_log_raw_energy", @)]

FbankOptsParseConfigure(fb, file) ==
    [fb EXCEPT
        !.spectrogram_opts =
            [SpectrogramOptsParseConfigure(@, file)
                EXCEPT !.apply_log = FALSE, !.use_log_raw_energy = FALSE],
        !.apply_log = AddOptions(file, "FbankOpts.apply_log", @)]

MfccOptsParseConfigure(mo, file) ==
    [mo EXCEPT
        !.fbank_opts =
            [FbankOptsParseConfigure(@, file)
                EXCEPT !.spectrogram_opts.apply_pow = TRUE,
                       !.apply_log = TRUE]]

ParseConfigureOf(k, o, file) ==
    CASE k = "FrameSplitter"       -> o
      [] k = "SpectrogramComputer" -> SpectrogramOptsParseConfigure(o, file)
      [] k = "FbankComputer"       -> FbankOptsParseConfigure(o, file)
      [] k = "MfccComputer"        -> MfccOptsParseConfigure(o, file)

(***************************************************************************)
(* Initial states: an option object not yet validated, and a signal.       *)
(***************************************************************************)
InitRest ==
    /\ pc = "config"
    /\ failure = "none"
    /\ comp = << >>
    /\ prev_discard = << >>
    /\ pos = 0
    /\ calls = 0
    /\ out = << >>
    /\ counts = << >>
    /\ lastOp = "none"
    /\ lastArg = 0
    /\ lastSize = 0
    /\ lastStride = 0
    /\ lastRet = 0
    /\ warned = FALSE
    /\ lastCalls = << >>
    /\ refLive = FALSE
    /\ refTail = << >>
    /\ refOut = << >>
    /\ refCounts = << >>

unchangedCall == <<lastArg, lastSize, lastStride, lastRet, warned, lastCalls>>
unchangedStream == <<signal, pos, calls, out, counts>>
unchangedRef == <<refLive, refTail, refOut, refCounts>>

(***************************************************************************)
(* Operations.                                                             *)
(***************************************************************************)
\* opts.ParseConfigure(parser), before the object is built.
ParseConfigure ==
    /\ pc = "config"
    /\ kind \in Computers
    /\ \E file \in ParsedFiles :
          opts' = ParseConfigureOf(kind, opts, file)
    /\ UNCHANGED <<kind, pc, failure, comp, prev_discard, lastOp>>
    /\ UNCHANGED <<unchangedCall, unchangedStream, unchangedRef>>

\* new FrameSplitter(opts), new SpectrogramComputer(opts), ...
Construct ==
    /\ pc = "config"
    /\ LET made == New(kind, opts)
       IN  /\ pc' = IF made.ok THEN "ready" ELSE "failed"
           /\ failure' = made.why
           /\ comp' = IF made.ok THEN made.obj ELSE comp
           /\ prev_discard' = made.cached
    /\ lastOp' = "Construct"
    /\ UNCHANGED <<kind, opts>>
    /\ UNCHANGED <<unchangedCall, unchangedStream, unchangedRef>>

\* How far a framing call reads behind the samples it was given.
ReadBehind(sp, size, num_samps) ==
    LET num_frames == NumFrames(sp, size, num_samps)
        last_read  == (num_frames - 1) * FrameShift(sp) + FrameLength(sp)
    IN  IF num_frames > 0 /\ last_read > size + num_samps
        THEN last_read - (size + num_samps) ELSE 0

\* The body shared by Frame and ComputeFeature once the stride is accepted:
\* the next k samples of the signal are framed.
Framing(op, k, stride) ==
    LET sp    == SplitterOf(kind, comp)
        chunk == SubSeq(signal, pos + 1, pos + k)
    IN  /\ lastOp' = op
        /\ lastArg' = k
        /\ lastSize' = Len(prev_discard)
        /\ lastStride' = stride
        /\ IF FrameShift(sp) = 0
              \/ (FrameShift(sp) < 0 /\ NumFrames(sp, Len(prev_discard), k) > 0)
           THEN \* division by zero, or reads before the start of the buffers
                /\ pc' = "undefined"
                /\ UNCHANGED <<prev_discard, lastRet, warned, lastCalls>>
                /\ UNCHANGED <<unchangedStream, unchangedRef>>
           ELSE \E behind \in [1..ReadBehind(sp, Len(prev_discard), k)
                                  -> OtherValues] :
                  LET r   == FrameLoop(sp, prev_discard, chunk, behind, stride)
                      ref == FrameLoop(sp, refTail, chunk, behind, stride)
                  IN  /\ pc' = pc
                      /\ prev_discard' = r.cached
                      /\ lastRet' = r.ret
                      /\ warned' = NumFramesWarns(sp, Len(prev_discard), k)
                      /\ lastCalls' = r.calls
                      /\ pos' = pos + k
                      /\ calls' = calls + 1
                      /\ out' = out \o r.frames
                      /\ counts' = Append(counts, r.ret)
                      /\ IF refLive
                         THEN /\ refTail' = ref.cached
                              /\ refOut' = refOut \o ref.frames
                              /\ refCounts' = Append(refCounts, ref.ret)
                         ELSE UNCHANGED <<refTail, refOut, refCounts>>
                      /\ UNCHANGED <<signal, refLive>>
        /\ UNCHANGED <<kind, failure, opts, comp>>

\* ASSERT at the head of Frame and of ComputeFeature fired.
StrideRejected(op, k, stride) ==
    /\ pc' = "failed"
    /\ failure' = "ASSERT"
    /\ lastOp' = op
    /\ lastArg' = k
    /\ lastSize' = Len(prev_discard)
    /\ lastStride' = stride
    /\ UNCHANGED <<kind, opts, comp, prev_discard, lastRet, warned, lastCalls>>
    /\ UNCHANGED <<unchangedStream, unchangedRef>>

\* splitter.Frame(signal + pos, k, frames, stride)
Frame ==
    /\ pc = "ready"
    /\ kind = "FrameSplitter"
    /\ calls < MaxCalls
    /\ \E k \in 0..(Len(signal) - pos) :
       \E stride \in (FrameLength(comp) - 1)..(FrameLength(comp) + 1) :
          IF FrameLength(comp) <= stride
          THEN Framing("Frame", k, stride)
          ELSE StrideRejected("Frame", k, stride)

\* ComputeFeature(computer, signal + pos, k, addr, stride)
ComputeFeature ==
    /\ pc = "ready"
    /\ kind \in Computers
    /\ calls < MaxCalls
    /\ \E k \in 0..(Len(signal) - pos) :
       \E stride \in (FeatureDim(kind, comp) - 1)..(FeatureDim(kind, comp) + 1) :
          IF FeatureDim(kind, comp) <= stride
          THEN Framing("ComputeFeature", k, stride)
          ELSE StrideRejected("ComputeFeature", k, stride)

\* NumFrames(n) of the splitter, or of a computer, which delegates to it.
NumFramesCall ==
    /\ pc = "ready"
    /\ \E n \in NumSampsQueries :
          LET sp == SplitterOf(kind, comp)
          IN  /\ lastOp' = "NumFrames"
              /\ lastArg' = n
              /\ lastSize' = Len(prev_discard)
              /\ IF FrameShift(sp) = 0
                 THEN /\ pc' = "undefined"
                      /\ UNCHANGED <<lastRet, warned>>
                 ELSE /\ pc' = pc
                      /\ lastRet' = NumFrames(sp, Len(prev_discard), n)
                      /\ warned' = NumFramesWarns(sp, Len(prev_discard), n)
    /\ UNCHANGED <<kind, failure, opts, comp, prev_discard, lastStride,
                   lastCalls>>
    /\ UNCHANGED <<unchangedStream, unchangedRef>>

\* FeatureDim() of a computer.
FeatureDimCall ==
    /\ pc = "ready"
    /\ kind \in Computers
    /\ lastOp' = "FeatureDim"
    /\ lastRet' = FeatureDim(kind, comp)
    /\ UNCHANGED <<kind, pc, failure, opts, comp, prev_discard, lastArg,
                   lastSize, lastStride, warned, lastCalls>>
    /\ UNCHANGED <<unchangedStream, unchangedRef>>

\* Reset(); the caller then feeds the signal again from its first sample, and
\* a newly constructed object is fed the same samples beside it.
Reset ==
    /\ pc = "ready"
    /\ ~refLive
    /\ prev_discard' = ResetOf(kind, prev_discard)
    /\ lastOp' = "Reset"
    /\ pos' = 0
    /\ calls' = 0
    /\ out' = << >>
    /\ counts' = << >>
    /\ refLive' = TRUE
    /\ refTail' = New(kind, opts).cached
    /\ refOut' = << >>
    /\ refCounts' = << >>
    /\ lastSize' = Len(prev_discard)
    /\ UNCHANGED <<kind, pc, failure, opts, comp, signal>>
    /\ UNCHANGED <<lastArg, lastStride, lastRet, warned, lastCalls>>

\* Small frames and signals of a few samples: the framing of a stream.
InitFraming ==
    /\ kind = "FrameSplitter"
    /\ \E fo \in SmallFrameOpts :
          /\ fo.frame_length >= fo.frame_shift
          /\ opts = WithFrameOpts(kind, fo)
    /\ \E n \in 0..MaxSamples : signal = Recording(n)
    /\ InitRest

\* Any option values, and one short signal: validation and construction.
InitOptions ==
    /\ kind \in Kinds
    /\ opts \in AnyOpts(kind)
    /\ signal = Recording(Cardinality(BOOLEAN))
    /\ InitRest

Init == InitFraming \/ InitOptions

Next ==
    \/ ParseConfigure
    \/ Construct
    \/ Frame
    \/ ComputeFeature
    \/ NumFramesCall
    \/ FeatureDimCall
    \/ Reset

Spec == Init /\ [][Next]_vars

NextFraming ==
    \/ Construct
    \/ Frame
    \/ NumFramesCall
    \/ Reset

SpecFraming == InitFraming /\ [][NextFraming]_vars

SpecOptions == InitOptions /\ [][Next]_vars

(***************************************************************************)
(* Properties.                                                             *)
(***************************************************************************)
FramingOps == {"Frame", "ComputeFeature"}

\* The invariant the design states for a frame configuration.
FrameInvariant(fo) ==
    /\ fo.frame_length >= fo.frame_shift /\ fo.frame_shift > 0
    /\ fo.sample_rate > 0
    /\ fo.preemph_coeff >= 0 /\ fo.preemph_coeff < PreemphOne

Ready == pc = "ready"

ReadyValid == Ready /\ FrameInvariant(FrameOptsOf(kind, opts))

TheSplitter == SplitterOf(kind, comp)

\* C1: two successive Frame calls on the two parts of a signal, with no
\* Reset between them, give together as many frames as one Frame call of a
\* new splitter on the whole signal, and the same frames in the same order.
C1_TwoCallsEqualBatch ==
    (ReadyValid /\ kind = "FrameSplitter" /\ calls = 2 /\ pos = Len(signal))
    => \E behind \in [1..ReadBehind(comp, 0, Len(signal)) -> OtherValues] :
          LET batch == FrameLoop(comp, << >>, signal, behind, lastStride)
          IN  /\ Len(out) = Len(batch.frames)
              /\ out = batch.frames

\* C2: when num_samples plus the cached size is below frame_length, NumFrames
\* returns 0 and warns, and Frame and ComputeFeature process no frame.
C2_ShortSignalGivesZeroFrames ==
    (ReadyValid /\ lastArg + lastSize < FrameLength(TheSplitter))
    => /\ lastOp = "NumFrames" => (lastRet = 0 /\ warned)
       /\ lastOp \in FramingOps => (lastRet = 0 /\ warned /\ lastCalls = << >>)

\* C3: NumFrames(num_samples) is
\* floor((num_samples + prev_discard_size_ - frame_length) / frame_shift) + 1,
\* also when the numerator is negative.
C3_NumFramesIsFloorFormula ==
    (ReadyValid /\ lastOp = "NumFrames")
    => lastRet = ((lastArg + lastSize - FrameLength(TheSplitter))
                    \div FrameShift(TheSplitter)) + 1

\* C4 (state part): after Reset() the cached samples are gone, and the object
\* fed the signal again from its start stays equal, in NumFrames and in
\* output, to a newly constructed object fed the same samples.
ResetGivesFreshState ==
    /\ (Ready /\ lastOp = "Reset")
       => /\ Len(prev_discard) = 0
          /\ prev_discard = New(kind, opts).cached
    /\ (Ready /\ refLive)
       => /\ prev_discard = refTail
          /\ out = refOut
          /\ counts = refCounts
          /\ FrameShift(TheSplitter) # 0
             => \A n \in NumSampsQueries :
                   NumFrames(TheSplitter, Len(prev_discard), n)
                      = NumFrames(TheSplitter, Len(refTail), n)

\* C4 (step part): a step other than Reset() loses no cached sample: each one
\* is still cached afterwards or is part of a frame the step gave out.
OnlyResetDiscards ==
    (Ready /\ pc' = "ready" /\ lastOp' # "Reset")
    => \A c \in DOMAIN prev_discard :
          \/ \E i \in DOMAIN prev_discard' : prev_discard'[i] = prev_discard[c]
          \/ \E t \in (Len(out) + 1)..Len(out') :
                \E i \in DOMAIN out'[t] : out'[t][i] = prev_discard[c]

\* C4: Reset() returns the framing state of a splitter or a computer to the
\* state the constructor leaves, so that the signal fed again gives what a new
\* object gives, and no other operation discards the cached samples.
C4_ResetRestoresFreshState ==
    []ResetGivesFreshState /\ [][OnlyResetDiscards]_vars

\* Reset() was called on a Mfcc computer holding cached samples.
C4_Witness ==
    /\ Ready /\ kind = "MfccComputer"
    /\ lastOp = "Reset" /\ lastSize > 0 /\ prev_discard = << >>

\* C5: a frame configuration that passes Check() satisfies frame_length >=
\* frame_shift > 0, sample_rate > 0 and 0 <= preemph_coeff < 1; every other
\* one makes Check(), and so the constructor, fail.
C5_CheckEnforcesFrameInvariant ==
    (lastOp = "Construct" /\ Ready) => FrameInvariant(FrameOptsOf(kind, opts))

\* C6: once Check() of a FbankOpts or MfccOpts passes, no ASSERT of the
\* constructor of the computer fires.
C6_CheckedOptsConstruct ==
    (lastOp = "Construct" /\ kind \in {"FbankComputer", "MfccComputer"}
        /\ OptsCheck(kind, opts))
    => failure # "ASSERT"

\* C7: Frame fails unless stride >= frame_length; otherwise it calls
\* FrameForIndex once for each frame 0 .. NumFrames-1 in increasing order,
\* frame t at offset stride * t, rows of different frames do not overlap, and
\* the count it returns is the number of frames written.
C7_FrameWritesEveryRow ==
    (lastOp = "Frame" /\ FrameInvariant(FrameOptsOf(kind, opts)))
    => IF lastStride < FrameLength(comp)
       THEN pc = "failed"
       ELSE /\ Ready
            /\ \A t \in DOMAIN lastCalls :
                  lastCalls[t] = <<t - 1, lastStride * (t - 1)>>
            /\ \A t, u \in DOMAIN lastCalls :
                  t < u => lastCalls[t][2] + FrameLength(comp) <= lastCalls[u][2]
            /\ lastRet = Len(lastCalls)

\* The smallest power of two that is at least n, told without computing it.
RECURSIVE IsPowerOfTwo(_)
IsPowerOfTwo(p) == p = 1 \/ (p > 1 /\ p % 2 = 0 /\ IsPowerOfTwo(p \div 2))

IsPaddingOf(p, n) ==
    /\ p >= n
    /\ p = 1 \/ p \div 2 < n
    /\ IsPowerOfTwo(p)

\* C8: FeatureDim() is padding_length / 2 + 1 for a spectrogram computer, with
\* padding_length the smallest power of two not below frame_length, the
\* configured num_mel_bins for a Fbank computer and the configured num_ceps
\* for a Mfcc computer, after any calls of ComputeFeature, NumFrames and Reset.
C8_FeatureDimFixed ==
    (Ready /\ kind \in Computers)
    => /\ lastOp = "FeatureDim" => lastRet = FeatureDim(kind, comp)
       /\ kind = "SpectrogramComputer"
          => /\ \E p \in 1..(2 * opts.frame_opts.frame_length) :
                   /\ IsPaddingOf(p, opts.frame_opts.frame_length)
                   /\ FeatureDim(kind, comp) = p \div 2 + 1
             /\ opts.frame_opts.frame_length = DefaultFrameLength
                => FeatureDim(kind, comp) = 257
       /\ kind = "FbankComputer" => FeatureDim(kind, comp) = opts.num_mel_bins
       /\ kind = "MfccComputer" => FeatureDim(kind, comp) = opts.num_ceps

\* FeatureDim() of a spectrogram computer of 400-sample frames was asked after
\* features were computed and the computer was reset.
C8_Witness ==
    /\ Ready /\ kind = "SpectrogramComputer"
    /\ opts.frame_opts.frame_length = DefaultFrameLength
    /\ lastOp = "FeatureDim" /\ lastRet = 257
    /\ refLive /\ calls > 0

FbankOptsOf(k, o) == IF k = "MfccComputer" THEN o.fbank_opts ELSE o

\* C9: the upper bound of a constructed Fbank computer is Nyquist +
\* upper_bound when the configured upper_bound is <= 0, Nyquist being half the
\* sample rate, and the configured upper_bound otherwise; no later call
\* changes it.
C9_UpperBoundResolved ==
    (Ready /\ kind \in {"FbankComputer", "MfccComputer"})
    => LET fb   == FbankOptsOf(kind, opts)
           rate == fb.spectrogram_opts.frame_opts.sample_rate
       IN  /\ FbankOf(kind, comp).upper_bound_
                 = IF fb.upper_bound <= 0 THEN (rate \div 2) + fb.upper_bound
                   ELSE fb.upper_bound
           /\ (fb.upper_bound = 0 /\ rate = DefaultSampleRate)
              => FbankOf(kind, comp).upper_bound_ = 8000

\* A Fbank computer built with upper_bound 0 at 16000 Hz holds 8000 after
\* features were computed and the computer was reset.
C9_Witness ==
    /\ Ready /\ kind = "FbankComputer"
    /\ opts.upper_bound = 0
    /\ opts.spectrogram_opts.frame_opts.sample_rate = DefaultSampleRate
    /\ comp.upper_bound_ = 8000
    /\ refLive /\ calls > 0

\* C10: the spectrogram computer inside a constructed Fbank computer has
\* apply_pow set and apply_log and use_log_raw_energy clear; the Fbank
\* computer inside a constructed Mfcc computer has apply_log set.
C10_InnerFlagsForced ==
    (Ready /\ kind \in {"FbankComputer", "MfccComputer"})
    => /\ SpectrogramOf(kind, comp).apply_pow_
       /\ ~SpectrogramOf(kind, comp).apply_log_
       /\ ~SpectrogramOf(kind, comp).use_log_raw_energy_
       /\ kind = "MfccComputer" => FbankOf(kind, comp).apply_log_

====
